---- MODULE Spec2Model ----
(***************************************************************************)
(* A model of the error_reporter crate (src/src/lib.rs): the Report       *)
(* wrapper, its single-line and multi-line renderings, the Source          *)
(* iterator over an error's causes and the Indented writer adapter.        *)
(*                                                                         *)
(* Text is a sequence of one-character strings, so that splitting on       *)
(* newlines, padding and concatenation are computed and not assumed.       *)
(* An error value is the test suite's E { a, b } (src/src/tests.rs): a     *)
(* non-empty sequence of display texts, the head being the error's own     *)
(* text `a` and the tail its source `b` (the empty sequence is None).      *)
(* A sink is the fmt::Write target behind the Formatter: it records what   *)
(* it received and rejects the write call numbered failAt (0: never),      *)
(* taking nothing of a rejected write.  A function's fmt::Result travels   *)
(* with the sink as its field res; `?` is the test of res after a call.    *)
(***************************************************************************)
EXTENDS Integers, Sequences, FiniteSets, TLC

VARIABLES
    report,     \* the Report: [error, pretty]
    failAt,     \* the write call the caller's next sink rejects (0: none)
    fDisplay,   \* the last Display rendering: the flag it ran under, its sink
    fDebug,     \* the last Debug rendering: the flag it ran under, its sink
    orig,       \* history: the error the Report was built from
    lastFlag,   \* history: the flag of the latest pretty call (FALSE: none)
    mon,        \* history: progress through render, pretty(true),
                \*          pretty(false), render
    origOut,    \* history: the first single-line Display output
    chunks,     \* the chunks a caller writes through an Indented on its own
    pos,        \* how many of the chunks have been written
    inner,      \* the sink behind that Indented
    single      \* the sink that received the whole text in one write

reportVars == <<report, orig, lastFlag>>

sinkVars == <<failAt, fDisplay, fDebug>>

monVars == <<mon, origOut>>

indentVars == <<chunks, pos, inner, single>>

vars == <<report, failAt, fDisplay, fDebug, orig, lastFlag, mon, origOut,
          chunks, pos, inner, single>>

(***************************************************************************)
(* Bounds of the model.                                                    *)
(***************************************************************************)
\* The longest chain of causes below a root error.
MaxCauses == 3

\* The latest write call a sink may be set to reject.
MaxFailAt == 42

\* The most write calls one text is cut into, and the longest chunk.
MaxChunks == 2

MaxChunkLen == 3

(***************************************************************************)
(* Text.                                                                   *)
(***************************************************************************)
NL == "\n"

SP == " "

\* The display texts the wrapped errors take: a one-line text, a two-line
\* text, a text that starts and ends with a newline, and the empty text.
Texts == { <<"a">>, <<"b", NL, "c">>, <<NL, "d", NL>>, <<>> }

\* Option::None for an error's source.
None == <<>>

\* Every error value: a root with 0..MaxCauses causes chained below it.
Errors == UNION { [1..n -> Texts] : n \in 1..(MaxCauses + 1) }

\* The characters of the chunks written through the adapter on its own.
ChunkChars == {"a", NL}

ChunkTexts == UNION { [1..n -> ChunkChars] : n \in 0..MaxChunkLen }

ChunkSeqs == UNION { [1..n -> ChunkTexts] : n \in 0..MaxChunks }

RECURSIVE Flat(_)
\* The concatenation of a sequence of texts.
Flat(ss) == IF ss = <<>> THEN <<>> ELSE Head(ss) \o Flat(Tail(ss))

(***************************************************************************)
(* The wrapped error: the test suite's E.                                  *)
(***************************************************************************)
\* impl Error for E: source() is field b.
source(e) == Tail(e)

(***************************************************************************)
(* The sink and the Formatter's forwarding writes.                         *)
(***************************************************************************)
\* A fresh sink that rejects its n-th write call (n = 0: none).
Formatter(n) ==
    [buf |-> <<>>, calls |-> 0, failAt |-> n, rejected |-> FALSE,
     late |-> 0, res |-> "Ok"]

\* One write_str call on the sink: appended whole, or rejected whole.
write_str(f, s) ==
    LET n == f.calls + 1
        late == IF f.rejected THEN f.late + 1 ELSE f.late
    IN  IF f.failAt # 0 /\ n = f.failAt
        THEN [f EXCEPT !.calls = n, !.late = late, !.rejected = TRUE,
                       !.res = "Err"]
        ELSE [f EXCEPT !.calls = n, !.late = late, !.buf = @ \o s,
                       !.res = "Ok"]

\* write_char forwards the one character as a write.
write_char(f, c) == write_str(f, <<c>>)

\* The function's Ok(()) return.
Ok(f) == [f EXCEPT !.res = "Ok"]

(***************************************************************************)
(* Source: the iterator over an error and its sources.                     *)
(***************************************************************************)
\* Source::new
Source_new(error) == [current |-> error]

\* Iterator::next for Source: yields current and steps to its source.
Source_next(self) ==
    [item |-> self.current,
     iter |-> [current |-> IF self.current = None
                           THEN None
                           ELSE source(self.current)]]

(***************************************************************************)
(* Indented: the writer that indents what follows a newline.               *)
(***************************************************************************)
\* s.split('\n'): the pieces between newlines, one more than the newlines.
RECURSIVE split(_)
split(s) ==
    IF \A k \in 1..Len(s) : s[k] # NL
    THEN <<s>>
    ELSE LET k == CHOOSE j \in 1..Len(s) :
                      s[j] = NL /\ \A h \in 1..(j - 1) : s[h] # NL
         IN  <<SubSeq(s, 1, k - 1)>> \o split(SubSeq(s, k + 1, Len(s)))

\* The prefix Indented::write_str writes after a newline.
IndentPrefix == <<SP, SP, SP, SP, SP, SP>>

RECURSIVE Indented_for_unchecked(_, _, _)
\* Mutant: the newline and the prefix are written without `?`, so the loop
\* goes on writing after the sink rejected one of them.
Indented_for_unchecked(lines, i, inner0) ==
    LET next(f3) ==
            IF f3.res = "Err"
            THEN f3
            ELSE Indented_for_unchecked(Tail(lines), i + 1, f3)
    IN  IF lines = <<>>
        THEN Ok(inner0)
        ELSE IF i > 0
             THEN next(write_str(write_str(write_char(inner0, NL),
                                           IndentPrefix),
                                 Head(lines)))
             ELSE next(write_str(inner0, Head(lines)))

RECURSIVE Indented_for_skip_first(_, _, _)
\* Mutant: `if i > 1`, so the first line break gets no prefix.
Indented_for_skip_first(lines, i, inner0) ==
    LET next(f3) ==
            IF f3.res = "Err"
            THEN f3
            ELSE Indented_for_skip_first(Tail(lines), i + 1, f3)
        line(f2) ==
            IF f2.res = "Err" THEN f2 ELSE next(write_str(f2, Head(lines)))
        prefix(f1) ==
            IF f1.res = "Err"
            THEN f1
            ELSE IF i > 1 THEN line(write_str(f1, IndentPrefix)) ELSE line(f1)
    IN  IF lines = <<>>
        THEN Ok(inner0)
        ELSE IF i > 0
             THEN prefix(write_char(inner0, NL))
             ELSE next(write_str(inner0, Head(lines)))

RECURSIVE Indented_for(_, _, _)
\* The loop of Indented::write_str over the enumerated lines; each step
\* hands the sink on, or returns it at once when the write failed (`?`).
Indented_for(lines, i, inner0) ==
    LET next(f3) ==
            IF f3.res = "Err"
            THEN f3
            ELSE Indented_for(Tail(lines), i + 1, f3)
        line(f2) ==
            IF f2.res = "Err" THEN f2 ELSE next(write_str(f2, Head(lines)))
        prefix(f1) ==
            IF f1.res = "Err" THEN f1 ELSE line(write_str(f1, IndentPrefix))
    IN  IF lines = <<>>
        THEN Ok(inner0)
        ELSE IF i > 0
             THEN prefix(write_char(inner0, NL))
             ELSE next(write_str(inner0, Head(lines)))

\* Mutant: the text is forwarded as it stands, no prefix after a newline.
Indented_write_str_through(inner0, s) == write_str(inner0, s)

\* Mutant: s.lines() for s.split('\n'): a trailing newline opens no line.
Indented_write_str_lines(inner0, s) ==
    LET p == split(s)
    IN  Indented_for(IF Len(p) > 1 /\ p[Len(p)] = <<>>
                     THEN SubSeq(p, 1, Len(p) - 1)
                     ELSE p,
                     0, inner0)

\* Indented::write_str
Indented_write_str(inner0, s) == Indented_for(split(s), 0, inner0)

\* Indented's write_char is the trait's default: a write_str of the character.
Indented_write_char(inner0, c) == Indented_write_str(inner0, <<c>>)

\* A write by the Formatter over writer w: the sink itself, or Indented.
Formatter_write_str(w, f, s) ==
    IF w = "Indented" THEN Indented_write_str(f, s) ELSE write_str(f, s)

\* impl Display for E: f.write_str(self.a)
E_fmt(self, w, f) == Formatter_write_str(w, f, Head(self))

(***************************************************************************)
(* The index format {ind: >4}.                                             *)
(***************************************************************************)
DigitChars == <<"0", "1", "2", "3", "4", "5", "6", "7", "8", "9">>

RECURSIVE Digits(_)
\* The decimal digits of a natural number.
Digits(n) ==
    IF n < 10
    THEN <<DigitChars[n + 1]>>
    ELSE Digits(n \div 10) \o <<DigitChars[(n % 10) + 1]>>

\* The minimum field width of the index.
IndexWidth == 4

RECURSIVE pad_for(_, _)
\* The fill characters before a right-aligned value, one write_char each.
pad_for(k, inner0) ==
    LET next(f1) == IF f1.res = "Err" THEN f1 ELSE pad_for(k - 1, f1)
    IN  IF k <= 0 THEN Ok(inner0) ELSE next(Indented_write_char(inner0, SP))

\* The argument {ind: >4}: fill up to the width, then the digits.
fmt_index(ind, inner0) ==
    LET digits(f1) ==
            IF f1.res = "Err" THEN f1 ELSE Indented_write_str(f1, Digits(ind))
    IN  digits(pad_for(IndexWidth - Len(Digits(ind)), inner0))

(***************************************************************************)
(* Report.                                                                 *)
(***************************************************************************)
\* impl From<E> for Report<E>
from(error) == [error |-> error, pretty |-> FALSE]

\* Report::new
new(error) == from(error)

\* Mutant: the flag is only ever switched on.
pretty_sticky(self, flag) == [self EXCEPT !.pretty = @ \/ flag]

\* Report::pretty
pretty(self, flag) == [self EXCEPT !.pretty = flag]

RECURSIVE singleline_for_sep_after(_, _)
\* Mutant: write!(f, "{cause}: "), the separator after each cause.
singleline_for_sep_after(sources, f) ==
    LET n == Source_next(sources)
        next(f2) ==
            IF f2.res = "Err"
            THEN f2
            ELSE singleline_for_sep_after(n.iter, f2)
        sep(f1) == IF f1.res = "Err" THEN f1 ELSE next(write_str(f1, <<":", SP>>))
    IN  IF n.item = None THEN Ok(f) ELSE sep(E_fmt(n.item, "Sink", f))

RECURSIVE singleline_for(_, _)
\* The loop of fmt_singleline: write!(f, ": {cause}")? for each source.
singleline_for(sources, f) ==
    LET n == Source_next(sources)
        next(f2) == IF f2.res = "Err" THEN f2 ELSE singleline_for(n.iter, f2)
        cause(f1) ==
            IF f1.res = "Err" THEN f1 ELSE next(E_fmt(n.item, "Sink", f1))
    IN  IF n.item = None THEN Ok(f) ELSE cause(write_str(f, <<":", SP>>))

\* Report::fmt_singleline
fmt_singleline(self, f) ==
    LET sources == [current |-> source(self.error)]
        loop(f1) == IF f1.res = "Err" THEN f1 ELSE singleline_for(sources, f1)
    IN  loop(E_fmt(self.error, "Sink", f))

\* The header written before the causes.
CausedBy == <<NL, NL, "C", "a", "u", "s", "e", "d", SP, "b", "y", ":">>

\* Mutant: the causes are numbered from one.
write_numbered_from_one(inner0, ind, error) ==
    LET display(f2) ==
            IF f2.res = "Err" THEN f2 ELSE E_fmt(error, "Indented", f2)
        colon(f1) ==
            IF f1.res = "Err"
            THEN f1
            ELSE display(Indented_write_str(f1, <<":", SP>>))
    IN  colon(fmt_index(ind + 1, inner0))

\* write!(indented, "{ind: >4}: {error}")
write_numbered(inner0, ind, error) ==
    LET display(f2) ==
            IF f2.res = "Err" THEN f2 ELSE E_fmt(error, "Indented", f2)
        colon(f1) ==
            IF f1.res = "Err"
            THEN f1
            ELSE display(Indented_write_str(f1, <<":", SP>>))
    IN  colon(fmt_index(ind, inner0))

\* write!(indented, "      {error}")
write_plain(inner0, error) ==
    LET display(f1) ==
            IF f1.res = "Err" THEN f1 ELSE E_fmt(error, "Indented", f1)
    IN  display(Indented_write_str(inner0, <<SP, SP, SP, SP, SP, SP>>))

\* Mutant: every chain is taken to have several causes.
is_multiple_always(cause) == TRUE

\* let multiple = cause.source().is_some();
is_multiple(cause) == source(cause) # None

RECURSIVE multiline_for(_, _, _, _)
\* The loop of fmt_multiline over Source::new(cause).enumerate().
multiline_for(sources, ind, multiple, f) ==
    LET n == Source_next(sources)
        next(f2) ==
            IF f2.res = "Err"
            THEN f2
            ELSE multiline_for(n.iter, ind + 1, multiple, f2)
        item(f1) ==
            IF f1.res = "Err"
            THEN f1
            ELSE IF multiple
                 THEN next(write_numbered(f1, ind, n.item))
                 ELSE next(write_plain(f1, n.item))
    IN  IF n.item = None THEN Ok(f) ELSE item(write_str(f, <<NL>>))

\* Mutant: the header is written whether or not the error has a source.
fmt_multiline_header_always(self, f) ==
    LET error == self.error
        cause == source(error)
        loop(f2) ==
            IF f2.res = "Err"
            THEN f2
            ELSE IF cause = None
                 THEN Ok(f2)
                 ELSE multiline_for(Source_new(cause), 0, is_multiple(cause),
                                    f2)
        header(f1) ==
            IF f1.res = "Err" THEN f1 ELSE loop(write_str(f1, CausedBy))
    IN  header(E_fmt(error, "Sink", f))

\* Report::fmt_multiline
fmt_multiline(self, f) ==
    LET error == self.error
        cause == source(error)
        loop(f2) ==
            IF f2.res = "Err"
            THEN f2
            ELSE multiline_for(Source_new(cause), 0, is_multiple(cause), f2)
        header(f1) ==
            IF f1.res = "Err"
            THEN f1
            ELSE IF source(error) = None
                 THEN Ok(f1)
                 ELSE loop(write_str(f1, CausedBy))
    IN  header(E_fmt(error, "Sink", f))

\* impl fmt::Display for Report<E>
Display_fmt(self, f) ==
    IF self.pretty THEN fmt_multiline(self, f) ELSE fmt_singleline(self, f)

\* Mutant: Debug renders the single-line form whatever the flag.
Debug_fmt_singleline(self, f) == fmt_singleline(self, f)

\* impl fmt::Debug for Report<E>
Debug_fmt(self, f) == Display_fmt(self, f)

(***************************************************************************)
(* The state machine: a Report is built, reconfigured and rendered.        *)
(***************************************************************************)
\* No rendering yet.
NoOutput == [st |-> "none", pretty |-> FALSE, f |-> Formatter(0)]

\* A finished rendering, run while the latest pretty call asked for flag.
Output(flag, f) == [st |-> "done", pretty |-> flag, f |-> f]

IndentIdle ==
    /\ chunks = <<>>
    /\ pos = 0
    /\ inner = Formatter(0)
    /\ single = NoOutput

\* Report::from(e) or Report::new(e), no sink failure planned.
Init ==
    /\ \E e \in Errors :
          /\ report \in {from(e), new(e)}
          /\ orig = e
    /\ lastFlag = FALSE
    /\ failAt = 0
    /\ fDisplay = NoOutput
    /\ fDebug = NoOutput
    /\ mon = 0
    /\ origOut = <<>>
    /\ IndentIdle

\* report = report.pretty(flag)
Pretty(flag) ==
    /\ report' = pretty(report, flag)
    /\ lastFlag' = flag
    /\ UNCHANGED <<orig, sinkVars, indentVars>>

\* format!("{}", report) into a fresh sink that rejects call failAt.
DisplayFmt ==
    /\ fDisplay' = Output(lastFlag, Display_fmt(report, Formatter(failAt)))
    /\ UNCHANGED <<reportVars, failAt, fDebug, indentVars>>

\* format!("{:?}", report) into a fresh sink that rejects call failAt.
DebugFmt ==
    /\ fDebug' = Output(lastFlag, Debug_fmt(report, Formatter(failAt)))
    /\ UNCHANGED <<reportVars, failAt, fDisplay, indentVars>>

\* The history of the scenario: a single-line rendering (1), then
\* pretty(true) (2), then pretty(false) (3), then a rendering again (4).
MonPretty(flag) ==
    /\ mon' = IF flag /\ mon = 1 THEN 2
              ELSE IF ~flag /\ mon = 2 THEN 3
              ELSE mon
    /\ UNCHANGED origOut

MonDisplay ==
    /\ mon' = IF ~lastFlag /\ mon = 0 THEN 1
              ELSE IF ~lastFlag /\ mon = 3 THEN 4
              ELSE mon
    /\ origOut' = IF ~lastFlag /\ mon = 0 THEN fDisplay'.f.buf ELSE origOut

\* Renderings into sinks that never fail.
PrettyCall == \E flag \in BOOLEAN : Pretty(flag) /\ MonPretty(flag)

DisplayCall == DisplayFmt /\ MonDisplay

DebugCall == DebugFmt /\ UNCHANGED monVars

Next == PrettyCall \/ DisplayCall \/ DebugCall

Spec == Init /\ [][Next]_vars

\* Renderings into sinks that reject one write call: the caller's sinks
\* reject their failAt-th call (0: they never fail).
InitSink ==
    /\ \E e \in Errors :
          /\ report \in {from(e), new(e)}
          /\ orig = e
    /\ lastFlag = FALSE
    /\ failAt \in 0..MaxFailAt
    /\ fDisplay = NoOutput
    /\ fDebug = NoOutput
    /\ mon = 0
    /\ origOut = <<>>
    /\ IndentIdle

SinkPretty == \E flag \in BOOLEAN : Pretty(flag) /\ UNCHANGED monVars

SinkDisplay == DisplayFmt /\ UNCHANGED monVars

SinkDebug == DebugFmt /\ UNCHANGED monVars

NextSink == SinkPretty \/ SinkDisplay \/ SinkDebug

SpecSink == InitSink /\ [][NextSink]_vars

(***************************************************************************)
(* The state machine of the Indented adapter on its own: a text reaches    *)
(* it cut into chunks, one write_str call per chunk.                       *)
(***************************************************************************)
InitIndent ==
    /\ report = from(<<<<>>>>)
    /\ orig = <<<<>>>>
    /\ lastFlag = FALSE
    /\ failAt = 0
    /\ fDisplay = NoOutput
    /\ fDebug = NoOutput
    /\ mon = 0
    /\ origOut = <<>>
    /\ chunks \in ChunkSeqs
    /\ pos = 0
    /\ inner = Formatter(0)
    /\ single = NoOutput

\* indented.write_str(chunk) for the next chunk.
WriteChunk ==
    /\ pos < Len(chunks)
    /\ inner' = Indented_write_str(inner, chunks[pos + 1])
    /\ pos' = pos + 1
    /\ UNCHANGED <<reportVars, sinkVars, monVars, chunks, single>>

\* indented.write_str(text) for the whole text, into a sink of its own.
WriteWhole ==
    /\ single.st = "none"
    /\ single' = Output(FALSE, Indented_write_str(Formatter(0), Flat(chunks)))
    /\ UNCHANGED <<reportVars, sinkVars, monVars, chunks, pos, inner>>

NextIndent == WriteChunk \/ WriteWhole

SpecIndent == InitIndent /\ [][NextIndent]_vars

(***************************************************************************)
(* What the renderings are stated to produce, written out from the texts   *)
(* of the chain and not computed by the operators above.                   *)
(***************************************************************************)
\* The causes of an error, outermost first.
CausesOf(e) == [i \in 1..(Len(e) - 1) |-> e[i + 1]]

SixSpaces == <<" ", " ", " ", " ", " ", " ">>

HeaderText == <<"\n", "\n", "C", "a", "u", "s", "e", "d", " ", "b", "y", ":">>

\* s with six spaces inserted after each of its newline characters.
IndentedText(s) ==
    Flat([k \in 1..Len(s) |->
            IF s[k] = "\n" THEN <<"\n">> \o SixSpaces ELSE <<s[k]>>])

\* s with six spaces inserted after each newline character but its first.
IndentedExceptFirst(s) ==
    Flat([k \in 1..Len(s) |->
            IF s[k] = "\n" /\ \E h \in 1..(k - 1) : s[h] = "\n"
            THEN <<"\n">> \o SixSpaces
            ELSE <<s[k]>>])

RECURSIVE Pow10(_)
Pow10(k) == IF k = 0 THEN 1 ELSE 10 * Pow10(k - 1)

\* How many decimal digits i has.
NumDigits(i) == CHOOSE k \in 1..12 : Pow10(k - 1) <= i + (IF i = 0 THEN 1 ELSE 0)
                                    /\ i < Pow10(k)

\* The decimal numeral of i, digit by digit.
Numeral(i) ==
    [k \in 1..NumDigits(i) |->
        DigitChars[((i \div Pow10(NumDigits(i) - k)) % 10) + 1]]

\* The numeral of i right-aligned in a field at least four wide.
IndexField(i) ==
    [k \in 1..(IF NumDigits(i) < 4 THEN 4 - NumDigits(i) ELSE 0) |-> " "]
        \o Numeral(i)

\* Indices up to and beyond the width of the field.
ProbeIndices == {0, 9, 10, 99, 100, 999, 1000, 9999, 10000, 12345, 100000}

\* The single-line text: the displays joined by ": ".
RefSingle(e) ==
    e[1] \o Flat([i \in 1..(Len(e) - 1) |-> <<":", " ">> \o CausesOf(e)[i]])

\* A cause's display as it stands, or with its later lines indented.
Shown(s, indent) == IF indent THEN IndentedText(s) ELSE s

\* The numbered block: a line per cause, index field, ": ", display.
RefNumbered(e, indent) ==
    e[1] \o HeaderText
         \o Flat([i \in 1..(Len(e) - 1) |->
                    <<"\n">> \o IndexField(i - 1) \o <<":", " ">>
                             \o Shown(CausesOf(e)[i], indent)])

\* The block of a single cause: six spaces, display.
RefSole(e, indent) ==
    e[1] \o HeaderText \o <<"\n">> \o SixSpaces \o Shown(CausesOf(e)[1], indent)

\* The multi-line text.
RefMulti(e) ==
    IF Len(e) = 1 THEN e[1]
    ELSE IF Len(e) = 2 THEN RefSole(e, TRUE)
    ELSE RefNumbered(e, TRUE)

RefOutput(e, flag) == IF flag THEN RefMulti(e) ELSE RefSingle(e)

IsPrefix(a, b) == Len(a) <= Len(b) /\ SubSeq(b, 1, Len(a)) = a

HasNewline(s) == \E k \in 1..Len(s) : s[k] = "\n"

\* The lines of s: the pieces between its newline characters.
LinesOf(s) ==
    LET nl == {k \in 1..Len(s) : s[k] = "\n"}
        brk(j) == IF j = 0 THEN 0
                  ELSE IF j > Cardinality(nl) THEN Len(s) + 1
                  ELSE CHOOSE k \in nl : Cardinality({h \in nl : h <= k}) = j
    IN  [j \in 1..(Cardinality(nl) + 1) |->
            SubSeq(s, brk(j - 1) + 1, brk(j) - 1)]

Rendered(o) == o.st = "done"

(***************************************************************************)
(* The claims.                                                             *)
(***************************************************************************)
\* C1: a finished single-line Display rendering into a sink that never
\* fails returned Ok and wrote the root's display followed, for each cause
\* in chain order, by ": " and the cause's display, and nothing else.
C1_SingleLine ==
    (Rendered(fDisplay) /\ ~fDisplay.pretty)
        => /\ fDisplay.f.res = "Ok"
           /\ fDisplay.f.buf = RefSingle(report.error)

\* C1 witness: a single-line rendering of a root with two different causes.
C1_Witness ==
    /\ Rendered(fDisplay) /\ ~fDisplay.pretty
    /\ Len(report.error) = 3
    /\ report.error[2] # report.error[3]
    /\ report.error[3] # <<>>

\* C2 as stated: with two or more causes the pretty rendering is the root's
\* display, the header, and per cause a newline, the zero-based index
\* right-aligned in a field at least four wide, ": " and the cause's
\* display string as it stands.
C2_AsStated ==
    (Rendered(fDisplay) /\ fDisplay.pretty /\ Len(report.error) >= 3)
        => fDisplay.f.buf = RefNumbered(report.error, FALSE)

\* C2 as amended: the same, with each cause's display string carrying six
\* spaces after each of its embedded newlines; the index field is four wide
\* at least and holds every digit of an index of five or more digits.
C2_Numbered ==
    /\ (Rendered(fDisplay) /\ fDisplay.pretty /\ Len(report.error) >= 3)
          => /\ fDisplay.f.res = "Ok"
             /\ fDisplay.f.buf = RefNumbered(report.error, TRUE)
    /\ \A i \in ProbeIndices :
          fmt_index(i, Formatter(0)).buf = IndexField(i)

\* C2 witness: a pretty rendering of a root with three causes, the last of
\* which spans several lines.
C2_Witness ==
    /\ Rendered(fDisplay) /\ fDisplay.pretty
    /\ Len(report.error) = 4
    /\ report.error[2] = <<"a">>
    /\ HasNewline(report.error[4])

\* C3 as stated: with exactly one cause the pretty rendering is the root's
\* display, the header, a newline, six spaces and the cause's display
\* string as it stands.
C3_AsStated ==
    (Rendered(fDisplay) /\ fDisplay.pretty /\ Len(report.error) = 2)
        => fDisplay.f.buf = RefSole(report.error, FALSE)

\* C3 as amended: the same, with the cause's display string carrying six
\* spaces after each of its embedded newlines.
C3_SoleCause ==
    (Rendered(fDisplay) /\ fDisplay.pretty /\ Len(report.error) = 2)
        => /\ fDisplay.f.res = "Ok"
           /\ fDisplay.f.buf = RefSole(report.error, TRUE)

\* C3 witness: a pretty rendering of a root with one cause.
C3_Witness ==
    /\ Rendered(fDisplay) /\ fDisplay.pretty
    /\ Len(report.error) = 2
    /\ report.error[2] # <<>>

\* C4: an error without a source renders as its display string and nothing
\* else, under Display with either flag.
C4_NoSource ==
    (Rendered(fDisplay) /\ Len(report.error) = 1)
        => /\ fDisplay.f.res = "Ok"
           /\ fDisplay.f.buf = report.error[1]
           /\ fDisplay.f.buf = RefSingle(report.error)

\* C4 witness: a pretty rendering of a lone error whose display has
\* newlines of its own.
C4_Witness ==
    /\ Rendered(fDisplay) /\ fDisplay.pretty
    /\ Len(report.error) = 1
    /\ HasNewline(report.error[1])

\* C5: a Debug rendering and a Display rendering of the same Report state
\* into sinks that fail at the same write leave the sinks with the same
\* content after the same writes, and return the same result.
C5_DebugIsDisplay ==
    (Rendered(fDisplay) /\ Rendered(fDebug)
        /\ fDisplay.pretty = fDebug.pretty)
        => fDebug.f = fDisplay.f

\* C5 witness: both renderings ran in pretty mode and failed part way.
C5_Witness ==
    /\ Rendered(fDisplay) /\ Rendered(fDebug)
    /\ fDisplay.pretty /\ fDebug.pretty
    /\ fDebug.f.res = "Err"
    /\ Len(fDebug.f.buf) > Len(report.error[1]) + Len(HeaderText)

\* C6: in the pretty rendering of a root with causes, the output's lines
\* are the root's lines, an empty line, "Caused by:", and for each cause
\* its first line after the cause's prefix and each later line of its
\* display after exactly six spaces, numbered or not.
C6_LaterLinesIndented ==
    (Rendered(fDisplay) /\ fDisplay.pretty /\ Len(report.error) >= 2)
        => LET e == report.error
               n == Len(e) - 1
               lead(i) == IF n >= 2
                          THEN IndexField(i - 1) \o <<":", " ">>
                          ELSE SixSpaces
               block(i) ==
                   [k \in 1..Len(LinesOf(e[i + 1])) |->
                       (IF k = 1 THEN lead(i) ELSE SixSpaces)
                           \o LinesOf(e[i + 1])[k]]
           IN  LinesOf(fDisplay.f.buf)
                   = LinesOf(e[1])
                       \o << <<>>, <<"C", "a", "u", "s", "e", "d", " ",
                                     "b", "y", ":">> >>
                       \o Flat([i \in 1..n |-> block(i)])

\* C6 witness: pretty renderings whose causes span several lines, as the
\* only cause and as a numbered one.
C6_Witness ==
    /\ Rendered(fDisplay) /\ fDisplay.pretty
    /\ Len(report.error) = 3
    /\ report.error[2] = <<"\n", "d", "\n">>
    /\ report.error[3] = <<"b", "\n", "c">>

\* What C7 says of one finished rendering.
FailFast(o) ==
    Rendered(o)
        => LET full == RefOutput(report.error, o.pretty)
           IN  /\ o.f.late = 0
               /\ o.f.rejected => o.f.calls = o.f.failAt
               /\ (o.f.res = "Err") = o.f.rejected
               /\ IsPrefix(o.f.buf, full)
               /\ ~o.f.rejected => o.f.buf = full

\* C7: when the sink rejects a write the rendering returns the failure,
\* the rejected call is the last call the sink receives, and what the sink
\* holds is a prefix of the full output; when the sink rejects nothing the
\* rendering returns Ok with the full output.
C7_FailFast == FailFast(fDisplay) /\ FailFast(fDebug)

\* C7 witness: a pretty rendering failed on a write made inside a cause's
\* text, after part of that text was written.
C7_Witness ==
    /\ Rendered(fDisplay) /\ fDisplay.pretty
    /\ fDisplay.f.res = "Err"
    /\ Len(report.error) = 3
    /\ Len(fDisplay.f.buf)
          > Len(RefMulti(SubSeq(report.error, 1, 2))) + 7
    /\ Len(fDisplay.f.buf) < Len(RefMulti(report.error))

\* C8: the Report still wraps the error it was built from, its flag is that
\* of the latest pretty call, every Display rendering wrote what that error
\* and that flag determine, and every single-line rendering wrote what the
\* first one wrote, also after pretty(true) and pretty(false).
C8_Determined ==
    /\ report.error = orig
    /\ report.pretty = lastFlag
    /\ Rendered(fDisplay)
          => fDisplay.f.buf = RefOutput(orig, fDisplay.pretty)
    /\ (Rendered(fDisplay) /\ ~fDisplay.pretty /\ mon >= 1)
          => fDisplay.f.buf = origOut

\* C8 witness: rendered single-line, then pretty(true), then
\* pretty(false), then rendered again, on a root with causes.
C8_Witness ==
    /\ mon = 4
    /\ Rendered(fDisplay) /\ ~fDisplay.pretty
    /\ Len(orig) = 3

\* The chunks written so far, each with six spaces after each of its
\* newlines but the first.
WrittenExceptFirst ==
    Flat([k \in 1..pos |-> IndentedExceptFirst(chunks[k])])

\* The chunks written so far, each with six spaces after each newline.
WrittenIndented == Flat([k \in 1..pos |-> IndentedText(chunks[k])])

\* C9 as stated: each write call forwards its text with the six-space
\* prefix inserted after every line break except the first.
C9_AsStated == inner.buf = WrittenExceptFirst

\* C9 as amended: each write call forwards its text with the six-space
\* prefix inserted after every line break, the first one too: every line
\* but the first line of the written text is prefixed.
C9_EveryBreak == inner.res = "Ok" /\ inner.buf = WrittenIndented

\* C9 witness: a chunk with two line breaks has been written.
C9_Witness ==
    /\ pos >= 1
    /\ Len(LinesOf(chunks[pos])) >= 3

\* C10: once every chunk is written, the sink holds what a single write of
\* the whole text leaves in a sink: the text with six spaces after each
\* newline.
C10_ChunkingInvisible ==
    (pos = Len(chunks) /\ Rendered(single))
        => /\ inner.buf = single.f.buf
           /\ inner.buf = IndentedText(Flat(chunks))

\* C10 witness: a text cut directly after a newline, and one cut directly
\* before a newline.
C10_Witness ==
    /\ pos = Len(chunks) /\ Rendered(single)
    /\ Len(chunks) = 2
    /\ chunks[1] = <<"a", "\n">>
    /\ chunks[2] = <<"\n", "a">>

====
